---- MODULE Spec2Model ----
(***************************************************************************)
(* Model of src/grammer.py: FinalGrammarAnalyzer and the demo script that  *)
(* drives it.  A parsed sentence (spaCy Doc) is a sequence of token        *)
(* records; the parser itself is an external collaborator, so the Docs the *)
(* analyzer is applied to are drawn from bounded sets of token sequences.  *)
(*                                                                         *)
(* The Korean result labels of the source are written in English here      *)
(* (the module text is ASCII only):                                        *)
(*   "present perfect progressive"  line 62    "past perfect progressive"  *)
(*   line 64, "present progressive" line 68,   "past progressive" line 70, *)
(*   "present perfect" line 74,     "past perfect" line 76,                *)
(*   "present passive" line 80,     "past passive" line 82,                *)
(*   "simple past" line 85,         "simple present" line 88,              *)
(*   "unknown" line 90, "passive" line 101, "active" line 103,             *)
(*   "other" line 116.                                                     *)
(***************************************************************************)
EXTENDS Integers, Sequences, FiniteSets, TLC

VARIABLES
    pc,              \* position of the script: "start", "loop", "done", "crashed"
    nlp,             \* self.nlp: "unset" or "loaded"
    analyzer,        \* TRUE when a FinalGrammarAnalyzer object exists
    log,             \* sequence of log levels written by __init__
    exc,             \* the exception that ended the script, or "none"
    test_sentences,  \* the parsed sentences the script analyzes, in order
    printed          \* sequence of [doc, analysis] records produced so far

vars == <<pc, nlp, analyzer, log, exc, test_sentences, printed>>

(***************************************************************************)
(* Bounds                                                                  *)
(***************************************************************************)
MaxLen == 3

(***************************************************************************)
(* Tokens and Docs                                                         *)
(***************************************************************************)
\* A spaCy token: text, pos_, tag_, dep_, index i (0-based), head (index of
\* the governing token) and morph.get("Number") (a list, empty when absent).
Token(text, pos, tag, dep, head, number) ==
    [text |-> text, pos |-> pos, tag |-> tag, dep |-> dep, i |-> 0,
     head |-> head, Number |-> number]

\* A token whose head and Number are immaterial to the rule under study.
T(text, pos, tag, dep) == Token(text, pos, tag, dep, 0, <<>>)

\* The Doc holding the given tokens: token.i is the position in the Doc.
Doc(tokens) == [k \in 1..Len(tokens) |-> [tokens[k] EXCEPT !.i = k - 1]]

\* Python's None and the IndexError a Doc raises for an index out of range.
None == [kind |-> "None"]
IndexError == [kind |-> "IndexError"]

\* doc[i]: 0-based, negative indices count from the end, anything else raises.
GetItem(doc, i) ==
    IF 0 <= i /\ i < Len(doc) THEN doc[i + 1]
    ELSE IF i < 0 /\ Len(doc) + i >= 0 THEN doc[Len(doc) + i + 1]
    ELSE IndexError

\* str.lower() on the token texts of the vocabularies: the texts that hold an
\* upper-case letter are listed, every other text is already lower case.
Lower(text) ==
    CASE text = "TV" -> "tv"
      [] text = "Has" -> "has"
      [] text = "Been" -> "been"
      [] text = "School" -> "school"
      [] text = "The" -> "the"
      [] text = "He" -> "he"
      [] text = "She" -> "she"
      [] text = "They" -> "they"
      [] text = "We" -> "we"
      [] text = "I" -> "i"
      [] text = "It" -> "it"
      [] text = "Food" -> "food"
      [] text = "John" -> "john"
      [] OTHER -> text

\* The characters of a dependency label, for Python's substring test.
Chars(dep) ==
    CASE dep = "nsubj" -> <<"n", "s", "u", "b", "j">>
      [] dep = "nsubjpass" -> <<"n", "s", "u", "b", "j", "p", "a", "s", "s">>
      [] dep = "csubj" -> <<"c", "s", "u", "b", "j">>
      [] dep = "dobj" -> <<"d", "o", "b", "j">>
      [] dep = "pobj" -> <<"p", "o", "b", "j">>
      [] dep = "aux" -> <<"a", "u", "x">>
      [] dep = "auxpass" -> <<"a", "u", "x", "p", "a", "s", "s">>
      [] dep = "ROOT" -> <<"R", "O", "O", "T">>
      [] dep = "det" -> <<"d", "e", "t">>
      [] dep = "poss" -> <<"p", "o", "s", "s">>
      [] dep = "nummod" -> <<"n", "u", "m", "m", "o", "d">>
      [] dep = "amod" -> <<"a", "m", "o", "d">>
      [] dep = "prep" -> <<"p", "r", "e", "p">>
      [] dep = "punct" -> <<"p", "u", "n", "c", "t">>
      [] dep = "case" -> <<"c", "a", "s", "e">>
      [] dep = "subj" -> <<"s", "u", "b", "j">>
      [] dep = "obj" -> <<"o", "b", "j">>

\* needle in hay, on character sequences.
Contains(needle, hay) ==
    \E k \in 1..(Len(hay) - Len(needle) + 1) :
        SubSeq(hay, k, k + Len(needle) - 1) = needle

\* any(... for verb, _ in aux_verbs)
AnyText(pairs, texts) == \E k \in 1..Len(pairs) : pairs[k][1] \in texts

(***************************************************************************)
(* _analyze_tense                                                          *)
(***************************************************************************)
\* Truthiness of `next_token` / `prev_token`: None is falsy, a token (whose
\* text is never empty in a parsed sentence) is truthy.
Truthy(token) == token # None

\* Variant: the following token is read without the bounds test.
NextToken_Unguarded(doc, token) == GetItem(doc, token.i + 1)

NextToken(doc, token) ==
    IF token.i + 1 < Len(doc) THEN GetItem(doc, token.i + 1) ELSE None

ScanStart ==
    [aux_verbs |-> <<>>, main_verbs |-> <<>>, all_verb_tokens |-> <<>>,
     has_ing_form |-> FALSE, has_past_participle |-> FALSE, has_been |-> FALSE,
     raised |-> FALSE]

\* One iteration of the loop over the Doc's tokens.
ScanToken(doc, acc, token) ==
    IF acc.raised \/ token.pos \notin {"VERB", "AUX"} THEN acc
    ELSE
      LET low == Lower(token.text)
          flagged ==
              [acc EXCEPT
                 !.all_verb_tokens = Append(@, token),
                 !.has_ing_form = @ \/ token.tag = "VBG",
                 !.has_past_participle = @ \/ token.tag = "VBN",
                 !.has_been = @ \/ (token.tag = "VBN" /\ low = "been")]
          next_token == NextToken(doc, token)
      IN  IF low = "'s" THEN
              IF next_token = IndexError THEN [flagged EXCEPT !.raised = TRUE]
              ELSE IF Truthy(next_token) /\ next_token.tag = "VBG" THEN
                  [flagged EXCEPT !.aux_verbs = Append(@, <<"is", "VBZ">>),
                                  !.has_ing_form = TRUE]
              ELSE IF Truthy(next_token) /\ Lower(next_token.text) = "been" THEN
                  [flagged EXCEPT !.aux_verbs = Append(@, <<"has", "VBZ">>)]
              ELSE
                  [flagged EXCEPT !.aux_verbs = Append(@, <<"has", "VBZ">>)]
          ELSE IF low = "'ve" THEN
              [flagged EXCEPT !.aux_verbs = Append(@, <<"have", "VBP">>)]
          ELSE IF low = "'m" THEN
              [flagged EXCEPT !.aux_verbs = Append(@, <<"am", "VBP">>)]
          ELSE IF low = "'re" THEN
              [flagged EXCEPT !.aux_verbs = Append(@, <<"are", "VBP">>)]
          ELSE IF token.dep = "aux" THEN
              [flagged EXCEPT !.aux_verbs = Append(@, <<low, token.tag>>)]
          ELSE
              [flagged EXCEPT !.main_verbs = Append(@, <<low, token.tag>>)]

RECURSIVE ScanFrom(_, _, _)
ScanFrom(doc, k, acc) ==
    IF k > Len(doc) THEN acc ELSE ScanFrom(doc, k + 1, ScanToken(doc, acc, doc[k]))

Scan(doc) == ScanFrom(doc, 1, ScanStart)

\* The cascade of lines 60-90 over the scan's accumulators.
TenseOf(s) ==
    IF s.has_been /\ s.has_ing_form /\ AnyText(s.aux_verbs, {"have", "has", "'ve", "'s"})
        THEN "present perfect progressive"
    ELSE IF s.has_been /\ s.has_ing_form /\ AnyText(s.aux_verbs, {"had"})
        THEN "past perfect progressive"
    ELSE IF s.has_ing_form /\ AnyText(s.aux_verbs, {"am", "is", "are", "'m", "'s", "'re"})
        THEN "present progressive"
    ELSE IF s.has_ing_form /\ AnyText(s.aux_verbs, {"was", "were"})
        THEN "past progressive"
    ELSE IF s.has_past_participle /\ AnyText(s.aux_verbs, {"have", "has", "'ve", "'s"})
        THEN "present perfect"
    ELSE IF s.has_past_participle /\ AnyText(s.aux_verbs, {"had"})
        THEN "past perfect"
    ELSE IF s.has_past_participle /\ ~s.has_been /\ AnyText(s.aux_verbs, {"am", "is", "are"})
        THEN "present passive"
    ELSE IF s.has_past_participle /\ ~s.has_been /\ AnyText(s.aux_verbs, {"was", "were"})
        THEN "past passive"
    ELSE IF \E k \in 1..Len(s.all_verb_tokens) : s.all_verb_tokens[k].tag = "VBD"
        THEN "simple past"
    ELSE IF \E k \in 1..Len(s.all_verb_tokens) : s.all_verb_tokens[k].tag \in {"VBP", "VBZ"}
        THEN "simple present"
    ELSE "unknown"

\* Variant: the passive test of lines 78-82 is made before the other rules.
_analyze_tense_PassiveFirst(doc) ==
    LET s == Scan(doc)
    IN  IF s.has_past_participle /\ ~s.has_been /\ AnyText(s.aux_verbs, {"am", "is", "are"})
            THEN "present passive"
        ELSE IF s.has_past_participle /\ ~s.has_been /\ AnyText(s.aux_verbs, {"was", "were"})
            THEN "past passive"
        ELSE TenseOf(s)

_analyze_tense(doc) == TenseOf(Scan(doc))

(***************************************************************************)
(* _analyze_voice                                                          *)
(***************************************************************************)
\* Variant: the list is built from every token, not only VERB and AUX.
VerbPattern_AllTokens(doc) ==
    [k \in 1..Len(doc) |-> <<Lower(doc[k].text), doc[k].tag, doc[k].pos>>]

VerbPattern(doc) ==
    SelectSeq([k \in 1..Len(doc) |-> <<Lower(doc[k].text), doc[k].tag, doc[k].pos>>],
              LAMBDA p : p[3] \in {"VERB", "AUX"})

be_verbs == {"am", "is", "are", "was", "were", "be", "been"}

\* Variant: the voice is read off the tense label.
_analyze_voice_FromTense(doc) ==
    IF _analyze_tense(doc) \in {"present passive", "past passive"}
    THEN "passive" ELSE "active"

_analyze_voice(doc) ==
    LET verb_pattern == VerbPattern(doc)
        has_be_verb == AnyText(verb_pattern, be_verbs)
        has_past_participle == \E k \in 1..Len(verb_pattern) : verb_pattern[k][2] = "VBN"
    IN  IF has_be_verb /\ has_past_participle
           /\ ~AnyText(verb_pattern, {"have", "has", "had"})
        THEN "passive" ELSE "active"

(***************************************************************************)
(* _analyze_structure                                                      *)
(***************************************************************************)
\* "subj" in token.dep_ and "obj" in token.dep_
IsSubject(token) == Contains(Chars("subj"), Chars(token.dep))

\* Variant: only direct objects count as objects.
IsObject_DirectOnly(token) == token.dep = "dobj"

IsObject(token) == Contains(Chars("obj"), Chars(token.dep))

_analyze_structure(doc) ==
    LET subjects == {k \in 1..Len(doc) : IsSubject(doc[k])}
        verbs == {k \in 1..Len(doc) : doc[k].pos \in {"VERB", "AUX"}}
        objects == {k \in 1..Len(doc) : IsObject(doc[k])}
    IN  IF subjects # {} /\ verbs # {}
        THEN IF objects # {} THEN "SVO" ELSE "SV"
        ELSE "other"

(***************************************************************************)
(* _check_article_usage                                                    *)
(***************************************************************************)
ArticleExempt ==
    {"school", "home", "work", "breakfast", "lunch", "dinner",
     "yesterday", "today", "tomorrow", "tv", "television"}

\* token.children: the other tokens whose head is this token.
Children(doc, token) ==
    {k \in 1..Len(doc) : k - 1 # token.i /\ doc[k].head = token.i}

\* Variant: the preceding token is read without the bounds test.
PrevToken_Unguarded(doc, token) == GetItem(doc, token.i - 1)

PrevToken(doc, token) ==
    IF token.i > 0 THEN GetItem(doc, token.i - 1) ELSE None

RECURSIVE ArticleFrom(_, _)
ArticleFrom(doc, k) ==
    IF k > Len(doc) THEN TRUE
    ELSE
      LET token == doc[k]
          prev_token == PrevToken(doc, token)
      IN  IF ~(token.pos = "NOUN" /\ token.pos # "PROPN") THEN ArticleFrom(doc, k + 1)
          ELSE IF Lower(token.text) \in ArticleExempt THEN ArticleFrom(doc, k + 1)
          ELSE IF \E c \in Children(doc, token) : doc[c].dep \in {"poss", "nummod"}
              THEN ArticleFrom(doc, k + 1)
          ELSE IF token.dep = "pobj" THEN ArticleFrom(doc, k + 1)
          ELSE IF ~Truthy(prev_token)
                  \/ prev_token.pos \notin {"DET", "PRON", "ADJ", "PROPN"}
              THEN FALSE
          ELSE ArticleFrom(doc, k + 1)

_check_article_usage(doc) == ArticleFrom(doc, 1)

(***************************************************************************)
(* _check_subject_verb_agreement                                           *)
(***************************************************************************)
\* token.head
HeadOf(doc, token) == doc[token.head + 1]

\* Variant: AUX heads are compared as well.
IsVerbSubject_AuxHeads(doc, token) ==
    token.dep = "nsubj" /\ HeadOf(doc, token).pos \in {"VERB", "AUX"}

\* token.dep_ == "nsubj" and token.head.pos_ == "VERB"
IsVerbSubject(doc, token) == token.dep = "nsubj" /\ HeadOf(doc, token).pos = "VERB"

RECURSIVE AgreementFrom(_, _)
AgreementFrom(doc, k) ==
    IF k > Len(doc) THEN TRUE
    ELSE
      LET token == doc[k]
          head == HeadOf(doc, token)
      IN  IF ~IsVerbSubject(doc, token) THEN AgreementFrom(doc, k + 1)
          ELSE IF token.Number = <<>> \/ head.Number = <<>> THEN AgreementFrom(doc, k + 1)
          ELSE IF token.Number # head.Number THEN FALSE
          ELSE AgreementFrom(doc, k + 1)

_check_subject_verb_agreement(doc) == AgreementFrom(doc, 1)

(***************************************************************************)
(* analyze_grammar                                                         *)
(***************************************************************************)
\* Variant: a tense that matches no rule is returned as Python's None.
Analysis_NoTenseFallback(doc) ==
    [tense |-> IF _analyze_tense(doc) = "unknown" THEN "None" ELSE _analyze_tense(doc),
     voice |-> _analyze_voice(doc),
     structure |-> _analyze_structure(doc),
     agreement |-> _check_subject_verb_agreement(doc),
     article |-> _check_article_usage(doc)]

\* The dictionary returned for a parsed Doc.
Analysis(doc) ==
    [tense |-> _analyze_tense(doc),
     voice |-> _analyze_voice(doc),
     structure |-> _analyze_structure(doc),
     agreement |-> _check_subject_verb_agreement(doc),
     article |-> _check_article_usage(doc)]

\* TRUE when analyzing doc ends in an IndexError instead of a result.
Raises(doc) == Scan(doc).raised

(***************************************************************************)
(* The parsed sentences the analyzer is applied to                         *)
(***************************************************************************)
Sing == <<"Sing">>
Plur == <<"Plur">>

\* The five sentences of the demo (lines 164-170) as the parser tags them,
\* followed by sentences that reach the remaining tense labels.
DemoSentences ==
    << Doc(<<Token("He", "PRON", "PRP", "nsubj", 2, Sing),
             Token("is", "AUX", "VBZ", "aux", 2, Sing),
             Token("writing", "VERB", "VBG", "ROOT", 2, <<>>),
             Token("a", "DET", "DT", "det", 4, <<>>),
             Token("letter", "NOUN", "NN", "dobj", 2, Sing),
             Token(".", "PUNCT", ".", "punct", 2, <<>>)>>),
       Doc(<<Token("They", "PRON", "PRP", "nsubj", 2, Plur),
             Token("'ve", "AUX", "VBP", "aux", 2, <<>>),
             Token("finished", "VERB", "VBN", "ROOT", 2, <<>>),
             Token("the", "DET", "DT", "det", 4, <<>>),
             Token("project", "NOUN", "NN", "dobj", 2, Sing),
             Token(".", "PUNCT", ".", "punct", 2, <<>>)>>),
       Doc(<<Token("We", "PRON", "PRP", "nsubj", 2, Plur),
             Token("were", "AUX", "VBD", "aux", 2, <<>>),
             Token("watching", "VERB", "VBG", "ROOT", 2, <<>>),
             Token("TV", "NOUN", "NN", "dobj", 2, Sing),
             Token(".", "PUNCT", ".", "punct", 2, <<>>)>>),
       Doc(<<Token("The", "DET", "DT", "det", 1, <<>>),
             Token("food", "NOUN", "NN", "nsubjpass", 4, Sing),
             Token("was", "AUX", "VBD", "aux", 4, Sing),
             Token("being", "AUX", "VBG", "auxpass", 4, <<>>),
             Token("cooked", "VERB", "VBN", "ROOT", 4, <<>>),
             Token(".", "PUNCT", ".", "punct", 4, <<>>)>>),
       Doc(<<Token("The", "DET", "DT", "det", 1, <<>>),
             Token("window", "NOUN", "NN", "nsubj", 2, Sing),
             Token("broke", "VERB", "VBD", "ROOT", 2, <<>>),
             Token(".", "PUNCT", ".", "punct", 2, <<>>)>>),
       Doc(<<Token("She", "PRON", "PRP", "nsubj", 3, Sing),
             Token("has", "AUX", "VBZ", "aux", 3, Sing),
             Token("been", "AUX", "VBN", "aux", 3, <<>>),
             Token("working", "VERB", "VBG", "ROOT", 3, <<>>)>>),
       Doc(<<Token("She", "PRON", "PRP", "nsubj", 3, Sing),
             Token("had", "AUX", "VBD", "aux", 3, <<>>),
             Token("been", "AUX", "VBN", "aux", 3, <<>>),
             Token("working", "VERB", "VBG", "ROOT", 3, <<>>)>>),
       Doc(<<Token("She", "PRON", "PRP", "nsubj", 2, Sing),
             Token("had", "AUX", "VBD", "aux", 2, <<>>),
             Token("left", "VERB", "VBN", "ROOT", 2, <<>>)>>),
       Doc(<<Token("I", "PRON", "PRP", "nsubjpass", 2, Sing),
             Token("'m", "AUX", "VBP", "auxpass", 2, Sing),
             Token("invited", "VERB", "VBN", "ROOT", 2, <<>>)>>),
       Doc(<<Token("It", "PRON", "PRP", "nsubj", 2, Sing),
             Token("was", "AUX", "VBD", "aux", 2, Sing),
             Token("written", "VERB", "VBN", "ROOT", 2, <<>>)>>),
       Doc(<<Token("She", "PRON", "PRP", "nsubj", 1, Sing),
             Token("works", "VERB", "VBZ", "ROOT", 1, Sing)>>),
       Doc(<<Token("They", "PRON", "PRP", "nsubjpass", 3, Plur),
             Token("'ve", "AUX", "VBP", "aux", 3, <<>>),
             Token("been", "AUX", "VBN", "auxpass", 3, <<>>),
             Token("invited", "VERB", "VBN", "ROOT", 3, <<>>)>>),
       Doc(<<Token("Food", "NOUN", "NN", "ROOT", 0, Sing),
             Token(".", "PUNCT", ".", "punct", 0, <<>>)>>) >>

\* Every run of consecutive demo sentences.
DemoLists ==
    {SubSeq(DemoSentences, a, b) : a \in 1..Len(DemoSentences), b \in 0..Len(DemoSentences)}

\* Verb-group vocabulary: every auxiliary class the tense and voice rules
\* name, with and without the relation "aux", and tokens that carry a verb
\* tag without being VERB or AUX.
VerbTokens ==
    { T("'s", "AUX", "VBZ", "aux"),       T("'s", "PART", "POS", "case"),
      T("'ve", "AUX", "VBP", "aux"),      T("'m", "AUX", "VBP", "ROOT"),
      T("'re", "AUX", "VBP", "aux"),
      T("have", "AUX", "VBP", "aux"),     T("has", "VERB", "VBZ", "ROOT"),
      T("Has", "AUX", "VBZ", "aux"),      T("had", "AUX", "VBD", "aux"),
      T("is", "AUX", "VBZ", "aux"),       T("is", "AUX", "VBZ", "ROOT"),
      T("am", "AUX", "VBP", "aux"),       T("are", "AUX", "VBP", "aux"),
      T("were", "AUX", "VBD", "aux"),
      T("was", "AUX", "VBD", "aux"),      T("was", "AUX", "VBD", "auxpass"),
      T("be", "AUX", "VB", "auxpass"),
      T("been", "AUX", "VBN", "aux"),     T("Been", "AUX", "VBN", "ROOT"),
      T("been", "NOUN", "VBN", "ROOT"),
      T("being", "AUX", "VBG", "auxpass"), T("cooking", "VERB", "VBG", "ROOT"),
      T("cooking", "NOUN", "VBG", "dobj"),
      T("cooked", "VERB", "VBN", "ROOT"), T("cooked", "VERB", "VBD", "ROOT"),
      T("cooks", "VERB", "VBZ", "ROOT"),  T("food", "NOUN", "NN", "nsubj") }

\* Noun-phrase vocabulary for sentences of n tokens: exempt and non-exempt
\* nouns, the four qualifying predecessors, and poss/nummod dependents
\* attached to every possible head.
ArticleTokens(n) ==
    { T("the", "DET", "DT", "det"),       T("big", "ADJ", "JJ", "amod"),
      T("John", "PROPN", "NNP", "nsubj"), T("eats", "VERB", "VBZ", "ROOT"),
      T("at", "ADP", "IN", "prep"),       T("food", "NOUN", "NN", "nsubj"),
      T("food", "NOUN", "NN", "pobj"),    T("TV", "NOUN", "NN", "dobj"),
      T("School", "NOUN", "NN", "dobj") }
    \cup {Token("my", "PRON", "PRP$", "poss", h, <<>>) : h \in 0..(n - 1)}
    \cup {Token("two", "NUM", "CD", "nummod", h, <<>>) : h \in 0..(n - 1)}

\* Subject-verb vocabulary for sentences of n tokens: subjects with each
\* Number (or none) attached to every possible head, and VERB and AUX heads
\* with each Number (or none).
AgreementTokens(n) ==
    { T("eaten", "VERB", "VBN", "ROOT"),
      Token("eats", "VERB", "VBZ", "ROOT", 0, Sing),
      Token("eat", "VERB", "VBP", "ROOT", 0, Plur),
      Token("is", "AUX", "VBZ", "ROOT", 0, Sing),
      Token("are", "AUX", "VBP", "ROOT", 0, Plur),
      Token("dogs", "NOUN", "NNS", "dobj", 0, Plur) }
    \cup {Token("he", "PRON", "PRP", "nsubj", h, Sing) : h \in 0..(n - 1)}
    \cup {Token("they", "PRON", "PRP", "nsubj", h, Plur) : h \in 0..(n - 1)}
    \cup {Token("you", "PRON", "PRP", "nsubj", h, <<>>) : h \in 0..(n - 1)}
    \cup {Token("food", "NOUN", "NN", "nsubjpass", h, Sing) : h \in 0..(n - 1)}

\* Clause vocabulary: every subject and object relation, verbs, and tokens
\* that are neither.
StructureTokens ==
    { T("he", "PRON", "PRP", "nsubj"),      T("food", "NOUN", "NN", "nsubjpass"),
      T("eating", "VERB", "VBG", "csubj"),  T("eats", "VERB", "VBZ", "ROOT"),
      T("is", "AUX", "VBZ", "aux"),         T("TV", "NOUN", "NN", "dobj"),
      T("food", "NOUN", "NN", "pobj"),      T("the", "DET", "DT", "det"),
      T("at", "ADP", "IN", "prep"),         T("big", "ADJ", "JJ", "amod") }

\* Mixed vocabulary for the boundary cases of the neighbour lookups.
CoreTokens ==
    { T("'s", "AUX", "VBZ", "aux"),         T("'s", "VERB", "VBZ", "ROOT"),
      T("cooking", "VERB", "VBG", "ROOT"),  T("been", "AUX", "VBN", "aux"),
      T("cooked", "VERB", "VBN", "ROOT"),   T("food", "NOUN", "NN", "nsubj"),
      T("food", "NOUN", "NN", "pobj"),      T("TV", "NOUN", "NN", "dobj"),
      T("the", "DET", "DT", "det"),         T("my", "PRON", "PRP$", "poss"),
      T("eats", "VERB", "VBZ", "ROOT") }

\* The dependency labels the parser may give a token.
DepLabels ==
    {"nsubj", "nsubjpass", "csubj", "dobj", "pobj", "aux", "auxpass", "ROOT",
     "det", "poss", "nummod", "amod", "prep", "punct", "case"}

\* "The food was being cooked." with the given relations on "was" and "being".
FoodSentence(dep_was, dep_being) ==
    Doc(<<Token("The", "DET", "DT", "det", 1, <<>>),
          Token("food", "NOUN", "NN", "nsubjpass", 4, Sing),
          Token("was", "AUX", "VBD", dep_was, 4, Sing),
          Token("being", "AUX", "VBG", dep_being, 4, <<>>),
          Token("cooked", "VERB", "VBN", "ROOT", 4, <<>>),
          Token(".", "PUNCT", ".", "punct", 4, <<>>)>>)

(***************************************************************************)
(* The script: construct the analyzer, then analyze each sentence          *)
(***************************************************************************)
\* Before the script runs.
Start ==
    /\ pc = "start"
    /\ nlp = "unset"
    /\ analyzer = FALSE
    /\ log = <<>>
    /\ exc = "none"
    /\ printed = <<>>

\* The script analyzes one sentence of at most MaxLen tokens over the
\* vocabulary tokens[n] of sentences of n tokens, or a run of the demo.
Sentences(tokens) ==
    \/ \E n \in 0..MaxLen : \E s \in [1..n -> tokens[n]] : test_sentences = <<Doc(s)>>
    \/ test_sentences \in DemoLists

\* __init__, spacy.load succeeds: the model is kept and the object exists.
ConstructOk ==
    /\ pc = "start"
    /\ nlp' = "loaded"
    /\ log' = Append(log, "INFO")
    /\ analyzer' = TRUE
    /\ pc' = IF test_sentences = <<>> THEN "done" ELSE "loop"
    /\ UNCHANGED <<exc, test_sentences, printed>>

\* Variant: the OSError is logged and swallowed, leaving an object without
\* a parser.
ConstructFail_Swallowed ==
    /\ pc = "start"
    /\ log' = Append(log, "ERROR")
    /\ analyzer' = TRUE
    /\ pc' = IF test_sentences = <<>> THEN "done" ELSE "loop"
    /\ UNCHANGED <<nlp, exc, test_sentences, printed>>

\* __init__, spacy.load raises OSError: logged, then re-raised, so no object
\* is bound to `analyzer` and the script ends with the exception.
ConstructFail ==
    /\ pc = "start"
    /\ log' = Append(log, "ERROR")
    /\ exc' = "OSError"
    /\ pc' = "crashed"
    /\ UNCHANGED <<nlp, analyzer, test_sentences, printed>>

\* One iteration of the demo loop: analyze_grammar on the next sentence and
\* print the result.
analyze_grammar ==
    /\ pc = "loop"
    /\ analyzer
    /\ LET doc == test_sentences[Len(printed) + 1]
       IN  IF nlp # "loaded" THEN
               /\ exc' = "AttributeError"
               /\ pc' = "crashed"
               /\ UNCHANGED printed
           ELSE IF Raises(doc) THEN
               /\ exc' = "IndexError"
               /\ pc' = "crashed"
               /\ UNCHANGED printed
           ELSE
               /\ printed' = Append(printed, [doc |-> doc, analysis |-> Analysis(doc)])
               /\ pc' = IF Len(printed) + 1 = Len(test_sentences) THEN "done" ELSE "loop"
               /\ UNCHANGED exc
    /\ UNCHANGED <<nlp, analyzer, log, test_sentences>>

Next == ConstructOk \/ ConstructFail \/ analyze_grammar

\* Tense and voice rules over verb groups.
InitTense == Start /\ Sentences([n \in 0..MaxLen |-> VerbTokens])
SpecTense == InitTense /\ [][Next]_vars

\* Article rule over noun phrases.
InitArticle == Start /\ Sentences([n \in 0..MaxLen |-> ArticleTokens(n)])
SpecArticle == InitArticle /\ [][Next]_vars

\* Agreement rule over subject-verb pairs.
InitAgreement == Start /\ Sentences([n \in 0..MaxLen |-> AgreementTokens(n)])
SpecAgreement == InitAgreement /\ [][Next]_vars

\* Clause-structure rule over dependency labels.
InitStructure == Start /\ Sentences([n \in 0..MaxLen |-> StructureTokens])
SpecStructure == InitStructure /\ [][Next]_vars

\* Mixed vocabulary, and "The food was being cooked." under every labelling
\* of its two auxiliaries.
Init ==
    /\ Start
    /\ \/ Sentences([n \in 0..MaxLen |-> CoreTokens])
       \/ \E d1 \in DepLabels, d2 \in DepLabels : test_sentences = <<FoodSentence(d1, d2)>>
Spec == Init /\ [][Next]_vars

(***************************************************************************)
(* Properties                                                              *)
(***************************************************************************)
\* The [doc, analysis] records produced so far.
Entries == {printed[k] : k \in 1..Len(printed)}

\* C1: the tense of every analyzed sentence is the category of the first of
\* the rules 1..7 whose flag and auxiliary sub-condition both hold, where the
\* flags are read off the VERB/AUX tokens (been: a VBN token "been"; gerund:
\* a VBG token, or a contracted 's directly before a VBG token; participle:
\* a VBN token) and the auxiliaries are the VERB/AUX tokens with relation
\* exactly "aux" plus the contracted tokens, each contracted token standing
\* for the auxiliary it resolves to.  A rule whose flag holds without a
\* matching auxiliary falls through to the next rule.
C1_TenseIsFirstMatchingRule ==
    \A e \in Entries :
      LET d == e.doc
          verbs == {k \in 1..Len(d) : d[k].pos \in {"VERB", "AUX"}}
          low(k) == Lower(d[k].text)
          beforeGerund(k) == k < Len(d) /\ d[k + 1].tag = "VBG"
          been == \E k \in verbs : d[k].tag = "VBN" /\ low(k) = "been"
          gerund == \E k \in verbs : d[k].tag = "VBG" \/ (low(k) = "'s" /\ beforeGerund(k))
          participle == \E k \in verbs : d[k].tag = "VBN"
          contracted == {k \in verbs : low(k) \in {"'s", "'ve", "'m", "'re"}}
          word(k) == CASE low(k) = "'s" -> (IF beforeGerund(k) THEN "is" ELSE "has")
                       [] low(k) = "'ve" -> "have"
                       [] low(k) = "'m" -> "am"
                       [] low(k) = "'re" -> "are"
                       [] OTHER -> low(k)
          aux == {word(k) : k \in contracted \cup {j \in verbs : d[j].dep = "aux"}}
          any(words) == aux \cap words # {}
          rule1 == IF ~been \/ ~gerund THEN "none"
                   ELSE IF any({"have", "has"}) THEN "present perfect progressive"
                   ELSE IF any({"had"}) THEN "past perfect progressive" ELSE "none"
          rule2 == IF ~gerund THEN "none"
                   ELSE IF any({"am", "is", "are"}) THEN "present progressive"
                   ELSE IF any({"was", "were"}) THEN "past progressive" ELSE "none"
          rule3 == IF ~participle THEN "none"
                   ELSE IF any({"have", "has"}) THEN "present perfect"
                   ELSE IF any({"had"}) THEN "past perfect" ELSE "none"
          rule4 == IF ~participle \/ been THEN "none"
                   ELSE IF any({"am", "is", "are"}) THEN "present passive"
                   ELSE IF any({"was", "were"}) THEN "past passive" ELSE "none"
          rule5 == IF \E k \in verbs : d[k].tag = "VBD" THEN "simple past" ELSE "none"
          rule6 == IF \E k \in verbs : d[k].tag \in {"VBP", "VBZ"}
                   THEN "simple present" ELSE "none"
          rules == <<rule1, rule2, rule3, rule4, rule5, rule6, "unknown">>
          first == CHOOSE r \in 1..7 : rules[r] # "none" /\ \A q \in 1..(r - 1) : rules[q] = "none"
      IN  e.analysis.tense = rules[first]

\* C1 witness: a sentence with a "been" participle and a gerund whose
\* auxiliaries match none of rules 1-4, so the cascade fell through to rule 5.
C1_Witness ==
    \E e \in Entries :
      /\ \E k \in 1..Len(e.doc) : e.doc[k].pos = "AUX" /\ e.doc[k].tag = "VBN"
                                   /\ Lower(e.doc[k].text) = "been"
      /\ \E k \in 1..Len(e.doc) : e.doc[k].pos = "VERB" /\ e.doc[k].tag = "VBG"
      /\ e.analysis.tense = "simple past"

\* C2: the voice of every analyzed sentence is "passive" exactly when, among
\* its VERB/AUX tokens, one has lowercase text in {am, is, are, was, were, be,
\* been}, one has tag VBN, and none has lowercase text in {have, has, had};
\* otherwise it is "active".
C2_VoicePassiveIff ==
    \A e \in Entries :
      LET d == e.doc
          verbs == {k \in 1..Len(d) : d[k].pos \in {"VERB", "AUX"}}
          passive ==
              /\ \E k \in verbs :
                    Lower(d[k].text) \in {"am", "is", "are", "was", "were", "be", "been"}
              /\ \E k \in verbs : d[k].tag = "VBN"
              /\ ~\E k \in verbs : Lower(d[k].text) \in {"have", "has", "had"}
      IN  /\ e.analysis.voice \in {"passive", "active"}
          /\ e.analysis.voice = "passive" <=> passive

\* C2 witness: a passive sentence whose only copular form is capitalised and
\* which also holds a VBN token that is not a verb.
C2_Witness ==
    \E e \in Entries :
      /\ e.analysis.voice = "passive"
      /\ \E k \in 1..Len(e.doc) : e.doc[k].text = "Been"
      /\ \E k \in 1..Len(e.doc) : e.doc[k].pos = "NOUN" /\ e.doc[k].tag = "VBN"
      /\ \A k \in 1..Len(e.doc) :
            e.doc[k].pos \in {"VERB", "AUX"} => e.doc[k].text \notin be_verbs

\* C4 (as amended): every result has exactly the five keys; tense is one of
\* the ten categories named by rules 1-6 or "unknown", voice is "active" or
\* "passive", structure is "SVO", "SV" or "other", and the two checks are
\* booleans.
C4_ResultRange ==
    \A e \in Entries :
      /\ DOMAIN e.analysis = {"tense", "voice", "structure", "agreement", "article"}
      /\ e.analysis.tense \in
            {"present perfect progressive", "past perfect progressive",
             "present progressive", "past progressive",
             "present perfect", "past perfect",
             "present passive", "past passive",
             "simple past", "simple present", "unknown"}
      /\ e.analysis.voice \in {"active", "passive"}
      /\ e.analysis.structure \in {"SVO", "SV", "other"}
      /\ e.analysis.agreement \in BOOLEAN
      /\ e.analysis.article \in BOOLEAN

\* C4 witness: a finished run in which "unknown", both voices and all three
\* structures were returned.
C4_Witness ==
    /\ pc = "done"
    /\ \E e \in Entries : e.analysis.tense = "unknown"
    /\ {e.analysis.voice : e \in Entries} = {"active", "passive"}
    /\ {e.analysis.structure : e \in Entries} = {"SVO", "SV", "other"}

\* C4 as stated: the tense values returned, "unknown" aside, are drawn from
\* seven categories.
C4_SevenTenseCategories ==
    Cardinality({e.analysis.tense : e \in Entries} \ {"unknown"}) <= 7

\* C10: voice is read from the raw token texts and disagrees with tense in
\* both directions.  A sentence whose VERB/AUX tokens are contracted 'm / 're
\* and past participles (none of them a gerund, none a form of be or have)
\* gets tense "present passive" with voice "active"; a sentence whose
\* VERB/AUX tokens are contracted 've, the participle "been" and a further
\* past participle gets tense "present perfect" with voice "passive".
C10_TenseVoiceDisagree ==
    \A e \in Entries :
      LET d == e.doc
          verbs == {k \in 1..Len(d) : d[k].pos \in {"VERB", "AUX"}}
          low(k) == Lower(d[k].text)
          special == {"am", "is", "are", "was", "were", "be", "been",
                      "have", "has", "had", "'s", "'ve", "'m", "'re"}
          contractedBe ==
              /\ \A k \in verbs : /\ d[k].tag # "VBG"
                                  /\ \/ low(k) \in {"'m", "'re"}
                                     \/ d[k].tag = "VBN" /\ low(k) \notin special
              /\ \E k \in verbs : low(k) \in {"'m", "'re"}
              /\ \E k \in verbs : d[k].tag = "VBN" /\ low(k) \notin special
          contractedHave ==
              /\ \A k \in verbs : /\ d[k].tag # "VBG"
                                  /\ \/ low(k) = "'ve"
                                     \/ d[k].tag = "VBN" /\ low(k) \notin (special \ {"been"})
              /\ \E k \in verbs : low(k) = "'ve"
              /\ \E k \in verbs : d[k].tag = "VBN" /\ low(k) = "been"
              /\ \E k \in verbs : d[k].tag = "VBN" /\ low(k) \notin special
      IN  /\ contractedBe =>
                e.analysis.tense = "present passive" /\ e.analysis.voice = "active"
          /\ contractedHave =>
                e.analysis.tense = "present perfect" /\ e.analysis.voice = "passive"

\* C10 witness: one run printed both disagreements.
C10_Witness ==
    /\ \E e \in Entries :
          /\ \E k \in 1..Len(e.doc) : e.doc[k].text = "'m" /\ e.doc[k].pos = "AUX"
          /\ e.analysis.tense = "present passive"
          /\ e.analysis.voice = "active"
    /\ \E e \in Entries :
          /\ \E k \in 1..Len(e.doc) : e.doc[k].text = "'ve" /\ e.doc[k].pos = "AUX"
          /\ \E k \in 1..Len(e.doc) : e.doc[k].text = "been" /\ e.doc[k].tag = "VBN"
          /\ e.analysis.tense = "present perfect"
          /\ e.analysis.voice = "passive"

\* C3: for "The food was being cooked." (was AUX/VBD, being AUX/VBG, cooked
\* VERB/VBN), whatever relations the parser gives "was" and "being", the
\* result has tense "past passive" and voice "passive".
C3_FoodSentencePastPassive ==
    \A e \in Entries :
      (/\ [k \in 1..Len(e.doc) |-> e.doc[k].text]
             = <<"The", "food", "was", "being", "cooked", ".">>
       /\ [k \in 1..Len(e.doc) |-> e.doc[k].tag]
             = <<"DT", "NN", "VBD", "VBG", "VBN", ".">>
       /\ [k \in 1..Len(e.doc) |-> e.doc[k].pos]
             = <<"DET", "NOUN", "AUX", "AUX", "VERB", "PUNCT">>)
      => e.analysis.tense = "past passive" /\ e.analysis.voice = "passive"

\* C5: the article check of every analyzed sentence is false exactly when
\* some NOUN token (a) has lowercase text outside the exemption list, (b) has
\* no dependent with relation poss or nummod, (c) is not itself a pobj, and
\* (d) is the first token or directly follows a token that is not DET, PRON,
\* ADJ or PROPN.
C5_ArticleFalseIff ==
    \A e \in Entries :
      LET d == e.doc
          bare(k) ==
              /\ d[k].pos = "NOUN"
              /\ Lower(d[k].text) \notin
                    {"school", "home", "work", "breakfast", "lunch", "dinner",
                     "yesterday", "today", "tomorrow", "tv", "television"}
              /\ ~\E j \in 1..Len(d) :
                    j # k /\ d[j].head = k - 1 /\ d[j].dep \in {"poss", "nummod"}
              /\ d[k].dep # "pobj"
              /\ (k = 1 \/ d[k - 1].pos \notin {"DET", "PRON", "ADJ", "PROPN"})
      IN  e.analysis.article = FALSE <=> \E k \in 1..Len(d) : bare(k)

\* C5 witness: the check passed for a sentence that starts with a non-exempt
\* NOUN (saved by a poss/nummod dependent) and ends with a determiner.
C5_Witness ==
    \E e \in Entries :
      /\ Len(e.doc) > 1
      /\ e.doc[1].pos = "NOUN" /\ e.doc[1].text = "food" /\ e.doc[1].dep = "nsubj"
      /\ e.doc[Len(e.doc)].pos = "DET"
      /\ e.analysis.article = TRUE

\* C6: the agreement check of every analyzed sentence is false exactly when
\* some token with relation "nsubj" has a VERB head and both carry a Number
\* and the two differ; an absent Number or a head that is not a VERB never
\* makes it false.
C6_AgreementFalseIff ==
    \A e \in Entries :
      LET d == e.doc
          clash(k) ==
              /\ d[k].dep = "nsubj"
              /\ d[d[k].head + 1].pos = "VERB"
              /\ d[k].Number # <<>>
              /\ d[d[k].head + 1].Number # <<>>
              /\ d[k].Number # d[d[k].head + 1].Number
      IN  e.analysis.agreement = FALSE <=> \E k \in 1..Len(d) : clash(k)

\* C6 witness: the check passed although a singular nsubj has a plural AUX
\* head, in a sentence that also holds a plural VERB.
C6_Witness ==
    \E e \in Entries :
      /\ e.analysis.agreement = TRUE
      /\ \E k \in 1..Len(e.doc) :
            /\ e.doc[k].dep = "nsubj" /\ e.doc[k].Number = Sing
            /\ e.doc[e.doc[k].head + 1].pos = "AUX"
            /\ e.doc[e.doc[k].head + 1].Number = Plur
      /\ \E k \in 1..Len(e.doc) : e.doc[k].pos = "VERB" /\ e.doc[k].Number = Plur

\* C7: the structure of every analyzed sentence is "SVO" exactly when it has
\* a token whose relation contains "subj", a VERB or AUX token, and a token
\* whose relation contains "obj" (pobj included); "SV" exactly when it has
\* the subject and the verb but no such object; "other" exactly when the
\* subject or the verb is missing.
C7_StructureIff ==
    \A e \in Entries :
      LET d == e.doc
          subject == \E k \in 1..Len(d) : d[k].dep \in {"nsubj", "nsubjpass", "csubj"}
          verb == \E k \in 1..Len(d) : d[k].pos \in {"VERB", "AUX"}
          object == \E k \in 1..Len(d) : d[k].dep \in {"dobj", "pobj"}
      IN  /\ e.analysis.structure = "SVO" <=> (subject /\ verb /\ object)
          /\ e.analysis.structure = "SV" <=> (subject /\ verb /\ ~object)
          /\ e.analysis.structure = "other" <=> (~subject \/ ~verb)

\* C7 witness: "SVO" for a sentence whose only object is a pobj and whose
\* only subject is a passive subject.
C7_Witness ==
    \E e \in Entries :
      /\ e.analysis.structure = "SVO"
      /\ \A k \in 1..Len(e.doc) : e.doc[k].dep \notin {"dobj", "nsubj", "csubj"}

\* C8: analyze_grammar returns a result for every sentence.  A contracted 's
\* that is the last token is resolved to the auxiliary "has"; a non-exempt
\* NOUN that is the first token (no poss/nummod dependent, not a pobj) makes
\* the article check false, whatever the last token is; the empty sentence
\* yields "unknown", "active", "other", true and true.
C8_TotalAtBoundaries ==
    /\ exc \notin {"IndexError", "AttributeError"}
    /\ pc = "done" => Len(printed) = Len(test_sentences)
    /\ \A e \in Entries :
         LET d == e.doc
             n == Len(d)
         IN  /\ (n > 0 /\ d[n].pos \in {"VERB", "AUX"} /\ Lower(d[n].text) = "'s")
                  => /\ Scan(d).aux_verbs # <<>>
                     /\ Scan(d).aux_verbs[Len(Scan(d).aux_verbs)] = <<"has", "VBZ">>
             /\ (/\ n > 0
                 /\ d[1].pos = "NOUN"
                 /\ Lower(d[1].text) \notin ArticleExempt
                 /\ d[1].dep # "pobj"
                 /\ ~\E j \in 2..n : d[j].head = 0 /\ d[j].dep \in {"poss", "nummod"})
                  => e.analysis.article = FALSE
             /\ n = 0 =>
                  e.analysis = [tense |-> "unknown", voice |-> "active",
                                structure |-> "other", agreement |-> TRUE,
                                article |-> TRUE]

\* C8 witness: a result for a sentence that starts with a non-exempt NOUN and
\* ends with a contracted 's.
C8_Witness ==
    \E e \in Entries :
      /\ Len(e.doc) > 1
      /\ e.doc[1].pos = "NOUN" /\ e.doc[1].text = "food" /\ e.doc[1].dep = "nsubj"
      /\ e.doc[Len(e.doc)].text = "'s" /\ e.doc[Len(e.doc)].pos = "AUX"
      /\ e.analysis.article = FALSE
      /\ pc = "done"

\* C9: a failed parser load ends construction with the OSError, logged and
\* propagated: no analyzer object exists and no result is ever produced.  An
\* analyzer object always holds a loaded parser, and every result was
\* produced after a successful load.
C9_NoAnalysisWithoutParser ==
    /\ exc = "OSError" =>
          /\ ~analyzer
          /\ nlp = "unset"
          /\ log = <<"ERROR">>
          /\ printed = <<>>
          /\ pc = "crashed"
    /\ analyzer => nlp = "loaded"
    /\ printed # <<>> => analyzer /\ nlp = "loaded" /\ log = <<"INFO">>

\* C9 witness: the load failed with sentences waiting to be analyzed.
C9_Witness ==
    /\ exc = "OSError"
    /\ pc = "crashed"
    /\ test_sentences # <<>>
    /\ printed = <<>>

====
